---- MODULE Spec2Model ----
(***************************************************************************)
(* Token lifecycle of the RTW backend: the register, login, logout and     *)
(* refresh handlers of backend/controller/authController.js, run as        *)
(* concurrent requests over the users and tokens collections.              *)
(*                                                                         *)
(* Every handler is cut at its awaits on a collection: the code between    *)
(* two such awaits is one atomic step, and the steps of different requests *)
(* interleave freely.  Time is counted in minutes.                         *)
(***************************************************************************)
EXTENDS Integers, Sequences, FiniteSets, TLC

(* ------------------------------ bounds --------------------------------- *)
\* user documents that can be created (ObjectIds 1..MaxUsers)
MaxUsers == 2
\* times the clock advances
MaxTicks == 1
\* requests received in one behaviour
MaxOps == 3

(* ------------------------- program constants --------------------------- *)
\* signAccessToken(..., "30m")
AccessTtl == 30
\* signRefreshToken(..., "60m")
RefreshTtl == 60
\* Joi.string().min(3) of username
UsernameMin == 3
\* Joi.string().max(50) of username at registration
RegisterUsernameMax == 50
\* Joi.string().max(30) of username at login
LoginUsernameMax == 30
\* {8,15} of passwordPattern
PasswordMinLen == 8
PasswordMaxLen == 15

\* the clock advances by one refresh lifetime at a time
ClockStep == RefreshTtl
\* the clock reads StartTime when the server starts
StartTime == RefreshTtl
Times == {StartTime + k * ClockStep : k \in 0..MaxTicks}

\* two requests can be in flight at the same time
Slots == {1, 2}
UserIds == 1..MaxUsers
NoId == 0

(* ----------------------------- inputs ---------------------------------- *)
Usernames == {"alice", "bob", "al"}
Emails == {"alice@x.com", "bob@x.com"}
\* passwords are sequences of characters
PwGood == <<"P", "a", "s", "s", "w", "0", "r", "d", "!">>
PwOther == <<"P", "a", "s", "s", "w", "0", "r", "d", "?">>
PwCaret == <<"P", "a", "s", "s", "w", "0", "r", "d", "^">>
\* a request body without the field
PwUndefined == <<>>
NoString == ""

Lower ==
    {"a", "b", "c", "d", "e", "f", "g", "h", "i", "j", "k", "l", "m",
     "n", "o", "p", "q", "r", "s", "t", "u", "v", "w", "x", "y", "z"}
Upper ==
    {"A", "B", "C", "D", "E", "F", "G", "H", "I", "J", "K", "L", "M",
     "N", "O", "P", "Q", "R", "S", "T", "U", "V", "W", "X", "Y", "Z"}
Digit == {"0", "1", "2", "3", "4", "5", "6", "7", "8", "9"}
\* the lookahead (?=.*[@.#$!%*?&^]) and the body class [A-Za-z\d@.#$!%*?&]
LookaheadSpecial == {"@", ".", "#", "$", "!", "%", "*", "?", "&", "^"}
BodySpecial == {"@", ".", "#", "$", "!", "%", "*", "?", "&"}

Chars(p) == {p[i] : i \in 1..Len(p)}

passwordPattern(p) ==
    /\ Chars(p) \cap Lower # {}
    /\ Chars(p) \cap Upper # {}
    /\ Chars(p) \cap Digit # {}
    /\ Chars(p) \cap LookaheadSpecial # {}
    /\ Chars(p) \subseteq (Lower \cup Upper \cup Digit \cup BodySpecial)
    /\ Len(p) >= PasswordMinLen
    /\ Len(p) <= PasswordMaxLen

\* userRegisterSchema.validate(req.body): TRUE when there is no error
userRegisterSchema(body) ==
    /\ Len(body.username) >= UsernameMin
    /\ Len(body.username) <= RegisterUsernameMax
    /\ body.email # NoString
    /\ passwordPattern(body.password)
    /\ body.confirmPassword = body.password

\* userLoginSchema.validate(req.body): the password is not required
userLoginSchema(body) ==
    /\ Len(body.username) >= UsernameMin
    /\ Len(body.username) <= LoginUsernameMax
    /\ (body.password = PwUndefined \/ passwordPattern(body.password))

\* bcrypt.hash(password, 10) and bcrypt.compare(password, hash)
bcryptHash(p) == <<"$2a$10$">> \o p
bcryptCompare(p, h) == h = bcryptHash(p)

(* ------------------------------ tokens --------------------------------- *)
\* A token is its payload and the secret that signed it.  Two tokens signed
\* for the same subject at the same time with the same secret are the same
\* string.
signAccessToken(id, ttl, t) ==
    [sub |-> id, iat |-> t, exp |-> t + ttl, key |-> "access"]
signRefreshToken(id, ttl, t) ==
    [sub |-> id, iat |-> t, exp |-> t + ttl, key |-> "refresh"]
\* req.cookies.refreshToken of a request that carries no such cookie
NoToken == [sub |-> NoId, iat |-> 0, exp |-> 0, key |-> "undefined"]
\* a well-formed, unexpired token signed with a secret the server does not hold
ForgedToken(id, t) ==
    [sub |-> id, iat |-> t, exp |-> t + RefreshTtl, key |-> "forged"]

\* verifyRefreshToken(token) returns the payload; VerifyRefreshOk is FALSE
\* where it throws
VerifyRefreshOk(tok, t) == tok.key = "refresh" /\ t <= tok.exp
verifyRefreshToken(tok) == [_id |-> tok.sub]
VerifyAccessOk(tok, t) == tok.key = "access" /\ t <= tok.exp

(* ---------------------------- collections ------------------------------ *)
\* users: documents [_id, username, email, password]
\* tokens: documents [_id, userId, token]   (refreshTokenSchema)

\* User.exists(filter)
EmailExists(us, email) == \E u \in us : u.email = email
UsernameExists(us, username) == \E u \in us : u.username = username
\* User.findOne({ username }) / User.findOne({ _id })
UsersByUsername(us, username) == {u \in us : u.username = username}
UsersById(us, id) == {u \in us : u._id = id}

\* RefreshToken.updateOne({ _id }, { token }, { upsert: true })
\* (variant: a plain insert, which adds a document even when one exists)
UpdateOneUpsertInsertMutant(ts, id, tok) ==
    ts \cup {[_id |-> id, userId |-> NoId, token |-> tok]}
UpdateOneUpsert(ts, id, tok) ==
    IF \E d \in ts : d._id = id
    THEN {IF d._id = id THEN [d EXCEPT !.token = tok] ELSE d : d \in ts}
    ELSE ts \cup {[_id |-> id, userId |-> NoId, token |-> tok]}

\* RefreshToken.updateOne({ _id }, { token })
\* (variant: with { upsert: true }, as in login)
UpdateOneWithUpsertMutant(ts, id, tok) == UpdateOneUpsert(ts, id, tok)
UpdateOne(ts, id, tok) ==
    {IF d._id = id THEN [d EXCEPT !.token = tok] ELSE d : d \in ts}

\* JWTService.storeRefreshToken(token, userId)
storeRefreshToken(ts, tok, userId) ==
    IF \E d \in ts : d._id = userId
    THEN {IF d._id = userId THEN [d EXCEPT !.token = tok, !.userId = userId]
          ELSE d : d \in ts}
    ELSE ts \cup {[_id |-> userId, userId |-> userId, token |-> tok]}

\* RefreshToken.deleteOne({ token }): removes one document that matches; an
\* absent cookie (token undefined) matches no document, every stored token
\* being a string
\* (variant: deleteOne({}), a filter that matches every document)
DeleteOneEmptyFilterMutant(ts, tok) ==
    IF ts = {} THEN {ts} ELSE {ts \ {d} : d \in ts}
DeleteOneResults(ts, tok) ==
    IF \E d \in ts : d.token = tok
    THEN {ts \ {d} : d \in {e \in ts : e.token = tok}}
    ELSE {ts}

\* what RefreshToken.findOne({ _id, token }) resolves to when it is awaited
FindOneDocs(ts, id, tok) == {d \in ts : d._id = id /\ d.token = tok}

\* userToRegister.save(): the collection refuses a second document with the
\* same email or username
UserSaveOk(us, username, email) ==
    ~EmailExists(us, email) /\ ~UsernameExists(us, username)

(* ------------------------------- state --------------------------------- *)
VARIABLES
    now,        \* the server clock, in minutes
    users,      \* the users collection
    tokens,     \* the tokens collection
    nextId,     \* the next ObjectId of a user document
    req,        \* the requests in flight and their responses, per slot
    opCount,    \* requests received so far
    issued,     \* refresh tokens the callers hold (delivered in a response)
    revoked,    \* refresh tokens retired by a rotation, a logout, a re-login
                \* or a lost race
    loginToken  \* per user, the refresh token its last Login delivered

vars == <<now, users, tokens, nextId, req, opCount, issued, revoked, loginToken>>

NoCookies == [accessToken |-> NoToken, refreshToken |-> NoToken]

IdleReq ==
    [op |-> "none", pc |-> "idle",
     username |-> NoString, email |-> NoString, password |-> PwUndefined,
     token |-> NoToken, id |-> NoId,
     accessToken |-> NoToken, refreshToken |-> NoToken,
     emailInUse |-> FALSE, usernameInUse |-> FALSE,
     verified |-> FALSE, match |-> FALSE, onRecord |-> FALSE, pre |-> {},
     wrote |-> FALSE, thrownAt |-> NoString,
     out |-> "pending", status |-> 0, message |-> NoString,
     cookies |-> NoCookies, cleared |-> FALSE, auth |-> FALSE, userDto |-> NoId]

NoRevoked == [rotated |-> {}, loggedOut |-> {}, relogin |-> {}, lost |-> {}]

\* The server starts on the database it is given: an empty one, or one in
\* which alice registered at time 0 (the state her Register leaves).
Alice ==
    [_id |-> 1, username |-> "alice", email |-> "alice@x.com",
     password |-> bcryptHash(PwGood)]
AliceToken == signRefreshToken(1, RefreshTtl, 0)

InitEmpty ==
    /\ users = {}
    /\ tokens = {}
    /\ nextId = 1
    /\ issued = {}

InitRegistered ==
    /\ users = {Alice}
    /\ tokens = storeRefreshToken({}, AliceToken, 1)
    /\ nextId = 2
    /\ issued = {AliceToken}

Init ==
    /\ now = StartTime
    /\ InitEmpty \/ InitRegistered
    /\ req = [s \in Slots |-> IdleReq]
    /\ opCount = 0
    /\ revoked = NoRevoked
    /\ loginToken = [u \in UserIds |-> NoToken]

(* ------------------------- ends of a handler --------------------------- *)
\* the locals of a handler that has returned are gone
Returned(r) ==
    [r EXCEPT !.pc = "done", !.username = NoString, !.email = NoString,
              !.password = PwUndefined, !.accessToken = NoToken,
              !.refreshToken = NoToken]

\* return next(error)
NextError(r, status, message) ==
    [Returned(r) EXCEPT !.out = "next", !.status = status, !.message = message]

\* return next(error) with an error thrown by a collection or by Joi: the
\* error object has no status
NextThrown(r, message) ==
    [IdleReq EXCEPT !.op = r.op, !.pc = "done", !.out = "next",
                    !.message = message, !.thrownAt = r.pc,
                    !.cookies = r.cookies, !.wrote = r.wrote]

\* an exception leaves the handler: no response is sent and next is not called
Escaped(r, message) ==
    [IdleReq EXCEPT !.op = r.op, !.pc = "done", !.out = "escaped",
                    !.message = message, !.thrownAt = r.pc,
                    !.cookies = r.cookies, !.wrote = r.wrote]

\* res.cookie("accessToken", ...); res.cookie("refreshToken", ...)
SetCookies(r, access, refresh) ==
    [r EXCEPT !.cookies = [accessToken |-> access, refreshToken |-> refresh]]

\* return res.status(status).json({ user, auth })
Respond(r, status, userDto, auth) ==
    [Returned(r) EXCEPT !.out = "response", !.status = status,
                        !.userDto = userDto, !.auth = auth]

\* a token written to the tokens collection is current again
Unrevoke(rv, tok) ==
    [rotated |-> rv.rotated \ {tok}, loggedOut |-> rv.loggedOut \ {tok},
     relogin |-> rv.relogin \ {tok}, lost |-> rv.lost \ {tok}]

\* a request takes the first slot that is free
Free(s) ==
    /\ opCount < MaxOps
    /\ req[s].pc \in {"idle", "done"}
    /\ \A t \in Slots : t < s => req[t].pc \notin {"idle", "done"}

\* A finished request stays in its slot, with its response, for the one state
\* that follows its last step; the next step of any request frees the slot.
Settle(rq) == [s \in Slots |-> IF rq[s].pc = "done" THEN IdleReq ELSE rq[s]]

(* ------------------------------ register ------------------------------- *)
\* lines 12-30: validation
RegisterStart(s, body) ==
    /\ Free(s)
    /\ opCount' = opCount + 1
    /\ LET r == [IdleReq EXCEPT !.op = "register"] IN
       req' = [Settle(req) EXCEPT ![s] =
                 IF ~userRegisterSchema(body)
                 THEN NextThrown(r, "ValidationError")
                 ELSE [r EXCEPT !.pc = "reg_emailExists",
                                !.username = body.username,
                                !.email = body.email,
                                !.password = body.password]]
    /\ UNCHANGED <<now, users, tokens, nextId, issued, revoked, loginToken>>

\* line 33: await User.exists({ email })
RegisterEmailExists(s, ok) ==
    /\ req[s].pc = "reg_emailExists"
    /\ req' = [Settle(req) EXCEPT ![s] =
                 IF ~ok THEN NextThrown(req[s], "StoreError")
                 ELSE [req[s] EXCEPT !.pc = "reg_usernameExists",
                                     !.emailInUse = EmailExists(users, req[s].email)]]
    /\ UNCHANGED <<now, users, tokens, nextId, opCount, issued, revoked, loginToken>>

\* lines 34-59: await User.exists({ username }), then the two conflict checks
\* (variant: the username conflict tested before the email conflict)
RegisterConflictUsernameFirstMutant(r, usernameInUse) ==
    IF usernameInUse
    THEN NextError(r, 409, "Username is not available , choose another username")
    ELSE IF r.emailInUse
    THEN NextError(r, 409, "Email already Register, use another email!")
    ELSE [r EXCEPT !.pc = "reg_save"]
RegisterConflictEmailFirst(r, usernameInUse) ==
    IF r.emailInUse
    THEN NextError(r, 409, "Email already Register, use another email!")
    ELSE IF usernameInUse
    THEN NextError(r, 409, "Username is not available , choose another username")
    ELSE [r EXCEPT !.pc = "reg_save"]

RegisterUsernameExists(s, ok) ==
    /\ req[s].pc = "reg_usernameExists"
    /\ req' = [Settle(req) EXCEPT ![s] =
                 IF ~ok THEN NextThrown(req[s], "StoreError")
                 ELSE LET inUse == UsernameExists(users, req[s].username) IN
                      RegisterConflictEmailFirst(
                          [req[s] EXCEPT !.usernameInUse = inUse], inUse)]
    /\ UNCHANGED <<now, users, tokens, nextId, opCount, issued, revoked, loginToken>>

\* lines 59-85: hash, await userToRegister.save(), sign both tokens
\* (variant: the tokens are signed although save failed)
RegisterSaveIgnoreFailureMutant(s, ok) ==
    /\ req[s].pc = "reg_save"
    /\ LET r == req[s]
           saved == ok /\ UserSaveOk(users, r.username, r.email) IN
       /\ nextId <= MaxUsers
       /\ users' = IF saved
                   THEN users \cup
                          {[_id |-> nextId, username |-> r.username,
                            email |-> r.email,
                            password |-> bcryptHash(r.password)]}
                   ELSE users
       /\ nextId' = IF saved THEN nextId + 1 ELSE nextId
       /\ req' = [Settle(req) EXCEPT ![s] =
            [r EXCEPT !.pc = "reg_store", !.id = nextId,
                      !.accessToken = signAccessToken(nextId, AccessTtl, now),
                      !.refreshToken = signRefreshToken(nextId, RefreshTtl, now)]]
    /\ UNCHANGED <<now, tokens, opCount, issued, revoked, loginToken>>
RegisterSave(s, ok) ==
    /\ req[s].pc = "reg_save"
    /\ LET r == req[s] IN
       IF ok /\ UserSaveOk(users, r.username, r.email)
       THEN /\ nextId <= MaxUsers
            /\ users' = users \cup
                 {[_id |-> nextId, username |-> r.username, email |-> r.email,
                   password |-> bcryptHash(r.password)]}
            /\ nextId' = nextId + 1
            /\ req' = [Settle(req) EXCEPT ![s] =
                 [r EXCEPT !.pc = "reg_store", !.id = nextId,
                           !.accessToken = signAccessToken(nextId, AccessTtl, now),
                           !.refreshToken = signRefreshToken(nextId, RefreshTtl, now)]]
       ELSE /\ req' = [Settle(req) EXCEPT ![s] =
                 NextThrown(r, IF ok THEN "ConflictError" ELSE "StoreError")]
            /\ UNCHANGED <<users, nextId>>
    /\ UNCHANGED <<now, tokens, opCount, issued, revoked, loginToken>>

\* lines 89-106: await JWTService.storeRefreshToken(...), cookies, 201
RegisterStore(s, ok) ==
    /\ req[s].pc = "reg_store"
    /\ LET r == req[s] IN
       IF ok
       THEN /\ tokens' = storeRefreshToken(tokens, r.refreshToken, r.id)
            /\ req' = [Settle(req) EXCEPT ![s] =
                 Respond(SetCookies([r EXCEPT !.wrote = (tokens' # tokens)],
                                    r.accessToken, r.refreshToken),
                         201, r.id, TRUE)]
            /\ issued' = issued \cup {r.refreshToken}
            /\ revoked' = Unrevoke(revoked, r.refreshToken)
       ELSE /\ req' = [Settle(req) EXCEPT ![s] = Escaped(r, "StoreError")]
            /\ UNCHANGED <<tokens, issued, revoked>>
    /\ UNCHANGED <<now, users, nextId, opCount, loginToken>>

(* -------------------------------- login -------------------------------- *)
\* lines 109-125: validation
LoginStart(s, body) ==
    /\ Free(s)
    /\ opCount' = opCount + 1
    /\ LET r == [IdleReq EXCEPT !.op = "login"] IN
       req' = [Settle(req) EXCEPT ![s] =
                 IF ~userLoginSchema(body)
                 THEN NextThrown(r, "ValidationError")
                 ELSE [r EXCEPT !.pc = "lg_findOne",
                                !.username = body.username,
                                !.password = body.password]]
    /\ UNCHANGED <<now, users, tokens, nextId, issued, revoked, loginToken>>

\* lines 127-157: await User.findOne({ username }), bcrypt.compare, sign
\* (variant: the password is not compared)
LoginMatchNoCompareMutant(r, found, t) ==
    IF found = {}
    THEN {NextError(r, 401, NoString)}
    ELSE {IF r.password = PwUndefined
          THEN NextThrown(r, "bcrypt: Illegal arguments")
          ELSE [r EXCEPT !.pc = "lg_updateOne", !.id = user._id,
                         !.accessToken = signAccessToken(user._id, AccessTtl, t),
                         !.refreshToken = signRefreshToken(user._id, RefreshTtl, t)]
          : user \in found}
LoginMatch(r, found, t) ==
    IF found = {}
    THEN \* the error object of line 133 carries "mesasge", no message
         {NextError(r, 401, NoString)}
    ELSE {IF r.password = PwUndefined
          THEN NextThrown(r, "bcrypt: Illegal arguments")
          ELSE IF ~bcryptCompare(r.password, user.password)
          THEN NextError(r, 401, "Invalid password")
          ELSE [r EXCEPT !.pc = "lg_updateOne", !.id = user._id,
                         !.accessToken = signAccessToken(user._id, AccessTtl, t),
                         !.refreshToken = signRefreshToken(user._id, RefreshTtl, t)]
          : user \in found}

LoginFindOne(s, ok) ==
    /\ req[s].pc = "lg_findOne"
    /\ IF ~ok
       THEN req' = [Settle(req) EXCEPT ![s] = NextThrown(req[s], "StoreError")]
       ELSE \E r \in LoginMatch(req[s], UsersByUsername(users, req[s].username), now) :
                req' = [Settle(req) EXCEPT ![s] = r]
    /\ UNCHANGED <<now, users, tokens, nextId, opCount, issued, revoked, loginToken>>

\* lines 161-192: await RefreshToken.updateOne(..., { upsert: true }), cookies, 200
LoginUpdateOne(s, ok) ==
    /\ req[s].pc = "lg_updateOne"
    /\ LET r == req[s] IN
       IF ok
       THEN /\ tokens' = UpdateOneUpsert(tokens, r.id, r.refreshToken)
            /\ req' = [Settle(req) EXCEPT ![s] =
                 Respond(SetCookies([r EXCEPT !.wrote = (tokens' # tokens)],
                                    r.accessToken, r.refreshToken),
                         200, r.id, TRUE)]
            /\ issued' = issued \cup {r.refreshToken}
            /\ revoked' =
                 LET rv == Unrevoke(revoked, r.refreshToken) IN
                 IF loginToken[r.id] \notin {NoToken, r.refreshToken}
                 THEN [rv EXCEPT !.relogin = @ \cup {loginToken[r.id]}]
                 ELSE rv
            /\ loginToken' = [loginToken EXCEPT ![r.id] = r.refreshToken]
       ELSE /\ req' = [Settle(req) EXCEPT ![s] = NextThrown(r, "StoreError")]
            /\ UNCHANGED <<tokens, issued, revoked, loginToken>>
    /\ UNCHANGED <<now, users, nextId, opCount>>

(* ------------------------------- logout -------------------------------- *)
\* line 197: const { refreshToken } = req.cookies
LogoutStart(s, tok) ==
    /\ Free(s)
    /\ opCount' = opCount + 1
    /\ req' = [Settle(req) EXCEPT ![s] =
                 [IdleReq EXCEPT !.op = "logout", !.pc = "lo_deleteOne",
                                 !.token = tok]]
    /\ UNCHANGED <<now, users, tokens, nextId, issued, revoked, loginToken>>

\* lines 206-211: clear both cookies, respond 200 { user: null, auth: false },
\* whatever deleteOne reported
\* (variant: an error when deleteOne removed nothing)
LogoutRespondIfDeletedMutant(r, deleted) ==
    IF deleted
    THEN Respond([r EXCEPT !.cleared = TRUE], 200, NoId, FALSE)
    ELSE NextError(r, 401, "unauthorized")
LogoutRespond(r, deleted) ==
    Respond([r EXCEPT !.cleared = TRUE], 200, NoId, FALSE)

\* lines 199-211: await RefreshToken.deleteOne({ token }), then the response
LogoutDeleteOne(s, ok) ==
    /\ req[s].pc = "lo_deleteOne"
    /\ LET r == req[s] IN
       IF ok
       THEN /\ tokens' \in DeleteOneResults(tokens, r.token)
            /\ req' = [Settle(req) EXCEPT ![s] =
                 LogoutRespond([r EXCEPT !.wrote = (tokens' # tokens)],
                               tokens' # tokens)]
            /\ revoked' =
                 IF r.token.key = "refresh"
                 THEN [revoked EXCEPT !.loggedOut = @ \cup {r.token}]
                 ELSE revoked
       ELSE /\ req' = [Settle(req) EXCEPT ![s] = NextThrown(r, "StoreError")]
            /\ UNCHANGED <<tokens, revoked>>
    /\ UNCHANGED <<now, users, nextId, opCount, issued, loginToken>>

(* ------------------------------- refresh ------------------------------- *)
\* RefreshToken.findOne(...) without await is a Query object, whatever the
\* collection holds; Truthy is JavaScript's !!value of it
QueryObject(docs) == "Query"
Truthy(value) == value \notin {"null", "undefined", NoString}
RefreshMatch(ts, id, tok) == Truthy(QueryObject(FindOneDocs(ts, id, tok)))

\* lines 220-251: verify (synchronous), the lookup, sign both tokens
\* (variant: the payload is read without verifying the token)
RefreshSyncNoVerifyMutant(r, tok, ts, rv, t) ==
    LET id == verifyRefreshToken(tok)._id
        v == [r EXCEPT !.verified = TRUE, !.id = id,
                       !.match = RefreshMatch(ts, id, tok),
                       !.onRecord = (FindOneDocs(ts, id, tok) # {}),
                       !.pre = {c \in DOMAIN rv : tok \in rv[c]}]
    IN IF ~v.match
       THEN NextError(v, 401, "unauthorized")
       ELSE [v EXCEPT !.pc = "rf_updateOne",
                      !.accessToken = signAccessToken(id, AccessTtl, t),
                      !.refreshToken = signRefreshToken(id, RefreshTtl, t)]
\* (variant: the token is verified with either secret)
RefreshSyncEitherSecretMutant(r, tok, ts, rv, t) ==
    IF ~(VerifyRefreshOk(tok, t) \/ VerifyAccessOk(tok, t))
    THEN NextError(r, 401, "unauthorized")
    ELSE LET id == verifyRefreshToken(tok)._id
             v == [r EXCEPT !.verified = TRUE, !.id = id,
                            !.match = RefreshMatch(ts, id, tok),
                            !.onRecord = (FindOneDocs(ts, id, tok) # {}),
                            !.pre = {c \in DOMAIN rv : tok \in rv[c]}]
         IN IF ~v.match
            THEN NextError(v, 401, "unauthorized")
            ELSE [v EXCEPT !.pc = "rf_updateOne",
                           !.accessToken = signAccessToken(id, AccessTtl, t),
                           !.refreshToken = signRefreshToken(id, RefreshTtl, t)]
RefreshSync(r, tok, ts, rv, t) ==
    IF ~VerifyRefreshOk(tok, t)
    THEN NextError(r, 401, "unauthorized")
    ELSE LET id == verifyRefreshToken(tok)._id
             v == [r EXCEPT !.verified = TRUE, !.id = id,
                            !.match = RefreshMatch(ts, id, tok),
                            !.onRecord = (FindOneDocs(ts, id, tok) # {}),
                            !.pre = {c \in DOMAIN rv : tok \in rv[c]}]
         IN IF ~v.match
            THEN NextError(v, 401, "unauthorized")
            ELSE [v EXCEPT !.pc = "rf_updateOne",
                           !.accessToken = signAccessToken(id, AccessTtl, t),
                           !.refreshToken = signRefreshToken(id, RefreshTtl, t)]

RefreshStart(s, tok) ==
    /\ Free(s)
    /\ opCount' = opCount + 1
    /\ req' = [Settle(req) EXCEPT ![s] =
         RefreshSync([IdleReq EXCEPT !.op = "refresh", !.token = tok],
                     tok, tokens, revoked, now)]
    /\ UNCHANGED <<now, users, tokens, nextId, issued, revoked, loginToken>>

\* the token this write replaces, when a concurrent Refresh of the same stored
\* token wrote it after this request's lookup: it lost to this write
LostTo(s, ts, rq) ==
    {d.token : d \in
        {e \in ts :
            /\ e._id = rq[s].id /\ rq[s].onRecord
            /\ e.token \notin {rq[s].token, rq[s].refreshToken}
            /\ \E a \in Slots \ {s} :
                  /\ rq[a].op = "refresh" /\ rq[a].token = rq[s].token
                  /\ rq[a].onRecord /\ rq[a].cookies.refreshToken = e.token}}

\* lines 253-266: await RefreshToken.updateOne({ _id }, { token }), cookies
RefreshUpdateOne(s, ok) ==
    /\ req[s].pc = "rf_updateOne"
    /\ LET r == req[s] IN
       IF ok
       THEN /\ tokens' = UpdateOne(tokens, r.id, r.refreshToken)
            /\ req' = [Settle(req) EXCEPT ![s] =
                 [SetCookies(r, r.accessToken, r.refreshToken)
                    EXCEPT !.pc = "rf_findOne", !.wrote = (tokens' # tokens)]]
            /\ revoked' =
                 LET rv == IF \E d \in tokens : d._id = r.id
                           THEN Unrevoke(revoked, r.refreshToken)
                           ELSE revoked
                 IN [rv EXCEPT !.lost = @ \cup LostTo(s, tokens, req)]
       ELSE /\ req' = [Settle(req) EXCEPT ![s] = NextThrown(r, "StoreError")]
            /\ UNCHANGED <<tokens, revoked>>
    /\ UNCHANGED <<now, users, nextId, opCount, issued, loginToken>>

\* lines 268-272: await User.findOne({ _id: id }), new userDTO(user), 200
RefreshFindOne(s, ok) ==
    /\ req[s].pc = "rf_findOne"
    /\ LET r == req[s] IN
       IF ~ok
       THEN /\ req' = [Settle(req) EXCEPT ![s] = Escaped(r, "StoreError")]
            /\ UNCHANGED <<issued, revoked>>
       ELSE IF UsersById(users, r.id) = {}
       THEN /\ req' = [Settle(req) EXCEPT ![s] = Escaped(r, "TypeError")]
            /\ UNCHANGED <<issued, revoked>>
       ELSE /\ req' = [Settle(req) EXCEPT ![s] =
                 Respond(r, 200, r.id, TRUE)]
            /\ issued' = issued \cup {r.cookies.refreshToken}
            /\ revoked' =
                 IF r.onRecord /\ r.cookies.refreshToken # r.token
                 THEN [revoked EXCEPT !.rotated = @ \cup {r.token}]
                 ELSE revoked
    /\ UNCHANGED <<now, users, tokens, nextId, opCount, loginToken>>

(* -------------------------------- clock -------------------------------- *)
Tick ==
    /\ now + ClockStep \in Times
    /\ now' = now + ClockStep
    /\ req' = Settle(req)
    /\ UNCHANGED <<users, tokens, nextId, opCount, issued, revoked, loginToken>>

(* ------------------------ what a caller can send ----------------------- *)
RegisterBodies ==
    {[username |-> u, email |-> e, password |-> p, confirmPassword |-> c] :
        u \in Usernames, e \in Emails, p \in {PwGood, PwCaret},
        c \in {PwGood}}

LoginBodies ==
    {[username |-> u, password |-> p] : u \in Usernames, p \in {PwGood, PwOther}}
      \cup {[username |-> "alice", password |-> PwUndefined]}

\* the refreshToken cookie a caller can send: a delivered refresh token, a
\* forged one, or none; to Refresh also a delivered access token
LogoutCookieValues == issued \cup {ForgedToken(1, now), NoToken}
CookieValues ==
    LogoutCookieValues
      \cup {signAccessToken(t.sub, AccessTtl, t.iat) : t \in issued}

\* a step of a request
Request ==
    \/ \E s \in Slots, body \in RegisterBodies : RegisterStart(s, body)
    \/ \E s \in Slots, ok \in BOOLEAN : RegisterEmailExists(s, ok)
    \/ \E s \in Slots, ok \in BOOLEAN : RegisterUsernameExists(s, ok)
    \/ \E s \in Slots, ok \in BOOLEAN : RegisterSave(s, ok)
    \/ \E s \in Slots, ok \in BOOLEAN : RegisterStore(s, ok)
    \/ \E s \in Slots, body \in LoginBodies : LoginStart(s, body)
    \/ \E s \in Slots, ok \in BOOLEAN : LoginFindOne(s, ok)
    \/ \E s \in Slots, ok \in BOOLEAN : LoginUpdateOne(s, ok)
    \/ \E s \in Slots, tok \in LogoutCookieValues : LogoutStart(s, tok)
    \/ \E s \in Slots, ok \in BOOLEAN : LogoutDeleteOne(s, ok)
    \/ \E s \in Slots, tok \in CookieValues : RefreshStart(s, tok)
    \/ \E s \in Slots, ok \in BOOLEAN : RefreshUpdateOne(s, ok)
    \/ \E s \in Slots, ok \in BOOLEAN : RefreshFindOne(s, ok)

Next ==
    \/ Request
    \/ Tick

Spec == Init /\ [][Next]_vars

\* the same requests, one at a time: no request starts while another is in
\* flight
InFlight(rq) == {s \in Slots : rq[s].pc \notin {"idle", "done"}}
NextSeq == Next /\ Cardinality(InFlight(req')) <= 1
SpecSeq == Init /\ [][NextSeq]_vars

\* the same requests on a clock read every half refresh lifetime, started
\* half a lifetime after alice registered: her token is good at two readings
FineStep == AccessTtl
FineTimes == {FineStep + k * FineStep : k \in 0..MaxTicks}
InitFine ==
    /\ now = FineStep
    /\ InitRegistered
    /\ req = [s \in Slots |-> IdleReq]
    /\ opCount = 0
    /\ revoked = NoRevoked
    /\ loginToken = [u \in UserIds |-> NoToken]
TickFine ==
    /\ now + FineStep \in FineTimes
    /\ now' = now + FineStep
    /\ req' = Settle(req)
    /\ UNCHANGED <<users, tokens, nextId, opCount, issued, revoked, loginToken>>
NextFine ==
    \/ Request
    \/ TickFine
SpecFine == InitFine /\ [][NextFine]_vars

(* ------------------------------- claims -------------------------------- *)
Done(s) == req[s].pc = "done"
\* the request ended with next({ status: 401 }) and no cookie was set
Rejected401(r) == r.out = "next" /\ r.status = 401 /\ r.cookies = NoCookies
\* the request ended with a response that carries a refreshToken cookie
Delivered(r) == r.out = "response" /\ r.cookies.refreshToken # NoToken
Succeeded(r) == Delivered(r) /\ r.status = 200 /\ r.auth

\* C1: rotation invalidates the predecessor.  A Refresh that presents a token
\* T1 which an earlier successful Refresh of the stored T1 replaced by another
\* token T2 ends with 401; a Refresh that presents the token on record, and
\* whose collection calls do not fail, succeeds.
C1_RotationInvalidatesPredecessor ==
    \A s \in Slots :
        Done(s) /\ req[s].op = "refresh" =>
            /\ "rotated" \in req[s].pre => Rejected401(req[s])
            /\ req[s].onRecord => Succeeded(req[s])

\* C2: logout revokes the session.  A Refresh that presents a token with
\* which a Logout completed earlier (and that no later login wrote back)
\* ends with 401 and delivers no tokens, although the token still verifies.
C2_LogoutRevokes ==
    \A s \in Slots :
        Done(s) /\ req[s].op = "refresh" /\ "loggedOut" \in req[s].pre =>
            Rejected401(req[s]) /\ ~Delivered(req[s])

\* C3: single active session.  A Refresh that presents the refresh token R1
\* of a Login which a later Login of the same user replaced by R2 ends with
\* 401.
C3_SingleActiveSession ==
    \A s \in Slots :
        Done(s) /\ req[s].op = "refresh" /\ "relogin" \in req[s].pre =>
            Rejected401(req[s])

C5_OnlyTokenOnRecord ==
    \A s \in Slots :
        Done(s) /\ req[s].op = "refresh" /\ req[s].verified /\ ~req[s].onRecord =>
            Rejected401(req[s]) /\ ~req[s].wrote

\* C6: after a successful Register, Login or Refresh that ran alone, the
\* refresh token in the response is the token of the user's record.
C6_DeliveredIsStored ==
    \A s \in Slots :
        Done(s) /\ req[s].out = "response" /\ req[s].auth =>
            \E d \in tokens :
                d._id = req[s].userDto /\ d.token = req[s].cookies.refreshToken

\* C7: Logout is unconditional.  Every Logout whose deleteOne does not fail
\* clears both cookies and answers 200 { user: null, auth: false }, whether
\* or not a record matched its token.
C7_LogoutUnconditional ==
    \A s \in Slots :
        Done(s) /\ req[s].op = "logout" /\ req[s].thrownAt = NoString =>
            /\ req[s].out = "response" /\ req[s].status = 200
            /\ req[s].cleared
            /\ req[s].userDto = NoId /\ ~req[s].auth

\* C7 witness: a Logout whose token matched no record has answered 200 and
\* cleared the cookies.
C7_Witness ==
    \E s \in Slots :
        /\ Done(s) /\ req[s].op = "logout" /\ ~req[s].wrote
        /\ req[s].token \in issued
        /\ req[s].out = "response" /\ req[s].status = 200 /\ req[s].cleared

\* a request starts in slot s in this step
Started(s) ==
    req[s].pc \in {"idle", "done"} /\ req'[s].pc # "idle" /\ opCount' = opCount + 1
\* the token is signed with the refresh secret and has not expired at time t
GenuineRefresh(tok, t) == tok.key = "refresh" /\ t <= tok.exp

\* C8: a Refresh whose token is not a genuine, unexpired refresh token (bad
\* signature, an access token, missing, expired) ends at once with 401,
\* changes no collection and sets no cookie.
C8_BadTokenRejected ==
    [][\A s \in Slots :
          Started(s) /\ req'[s].op = "refresh" /\ ~GenuineRefresh(req'[s].token, now) =>
              /\ req'[s].pc = "done" /\ Rejected401(req'[s])
              /\ tokens' = tokens /\ users' = users]_vars

\* C8 witness: a Refresh presented with an expired token that was the one on
\* record has been rejected with 401.
C8_Witness ==
    \E s \in Slots :
        /\ Done(s) /\ req[s].op = "refresh" /\ Rejected401(req[s])
        /\ req[s].token.key = "refresh" /\ req[s].token.exp < now
        /\ \E d \in tokens : d.token = req[s].token

\* C9: a failed write of the tokens collection in Register, Login or Refresh
\* is passed to the error handler and no cookie is set.
C9_StoreFailureReported ==
    \A s \in Slots :
        Done(s) /\ req[s].message = "StoreError"
                /\ req[s].thrownAt \in {"reg_store", "lg_updateOne", "rf_updateOne"} =>
            req[s].out = "next" /\ req[s].cookies = NoCookies

\* C10: a Register whose existence queries answer that the email or the
\* username is in use ends with 409, with the email conflict when both are,
\* and has created no user, written no session record and set no cookie.
C10_RegisterConflict ==
    \A s \in Slots :
        Done(s) /\ req[s].op = "register"
                /\ (req[s].emailInUse \/ req[s].usernameInUse) =>
            /\ req[s].out = "next" /\ req[s].status = 409
            /\ req[s].message =
                 IF req[s].emailInUse
                 THEN "Email already Register, use another email!"
                 ELSE "Username is not available , choose another username"
            /\ req[s].id = NoId /\ ~req[s].wrote /\ req[s].cookies = NoCookies

\* C10 witness: a Register whose email and username are both taken has been
\* refused with the email conflict.
C10_Witness ==
    \E s \in Slots :
        /\ Done(s) /\ req[s].op = "register"
        /\ req[s].emailInUse /\ req[s].usernameInUse
        /\ req[s].status = 409
        /\ req[s].message = "Email already Register, use another email!"

\* the username names no user, or the password given is not the user's
BadCredentials(us, username, password) ==
    \/ UsersByUsername(us, username) = {}
    \/ /\ password # PwUndefined
       /\ \A u \in UsersByUsername(us, username) :
              ~bcryptCompare(password, u.password)

\* C11: a Login whose user lookup answers and whose username is unknown or
\* whose password (one was sent) is wrong ends in that step with 401, sets
\* no cookie and leaves the tokens collection as it was.
C11_InvalidCredentials ==
    [][\A s \in Slots :
          /\ req[s].pc = "lg_findOne" /\ req'[s].pc # "lg_findOne"
          /\ req'[s].message # "StoreError"
          /\ BadCredentials(users, req[s].username, req[s].password)
          => /\ req'[s].pc = "done" /\ Rejected401(req'[s])
             /\ req'[s].id = NoId
             /\ tokens' = tokens]_vars

\* C11 witness: a Login of alice with a wrong password has been refused with
\* 401 while her session record still holds her unexpired token.
C11_Witness ==
    \E s \in Slots :
        /\ Done(s) /\ req[s].op = "login" /\ Rejected401(req[s])
        /\ req[s].message = "Invalid password"
        /\ \E d \in tokens :
              d._id = 1 /\ d.token = AliceToken /\ VerifyRefreshOk(d.token, now)

\* the access token delivered in the same response as the refresh token tok
AccessTokenOf(tok) == signAccessToken(tok.sub, AccessTtl, tok.iat)

RacedPair(a, b) ==
    /\ a # b
    /\ req[a].op = "refresh" /\ req[b].op = "refresh"
    /\ req[a].token = req[b].token
    /\ req[a].onRecord /\ req[b].onRecord
    /\ req[a].cookies.refreshToken # NoToken
    /\ req[b].cookies.refreshToken # NoToken

\* C13: when two concurrent Refresh requests of the same stored token have
\* both written, the user's record holds one of their two new tokens; and a
\* later Refresh that presents the new token which lost to the other write
\* ends with 401.
C13_LosingTokenRejected ==
    /\ \A a \in Slots, b \in Slots :
          RacedPair(a, b) =>
              \E d \in tokens :
                  /\ d._id = req[a].id
                  /\ d.token \in {req[a].cookies.refreshToken,
                                  req[b].cookies.refreshToken}
                  /\ \A e \in tokens : e._id = d._id => e = d
    /\ \A s \in Slots :
          Done(s) /\ req[s].op = "refresh" /\ "lost" \in req[s].pre =>
              Rejected401(req[s])

\* C14: every request that has ended has exactly one outcome: a response
\* was sent or an error was passed to the error handler, also when a
\* collection call failed or the user of a Refresh was not found.
C14_ExactlyOneOutcome ==
    \A s \in Slots :
        Done(s) => req[s].out \in {"response", "next"}

\* C15: no orphaned session.  Every document of the tokens collection is
\* keyed by the _id of a user document and holds a token signed for that
\* user; a Register whose save failed has passed the error on, written no
\* session record and set no cookie.
C15_NoOrphanedSession ==
    /\ \A d \in tokens :
          /\ \E u \in users : u._id = d._id
          /\ d.token.sub = d._id
          /\ d.userId \in {NoId, d._id}
    /\ \A s \in Slots :
          Done(s) /\ req[s].op = "register" /\ req[s].thrownAt = "reg_save" =>
              /\ req[s].out = "next"
              /\ req[s].id = NoId /\ ~req[s].wrote
              /\ req[s].cookies = NoCookies

\* C15 witness: a Register whose save was refused has ended while the tokens
\* collection holds the records of the users that exist, and only those.
C15_Witness ==
    \E s \in Slots :
        /\ Done(s) /\ req[s].op = "register" /\ req[s].thrownAt = "reg_save"
        /\ users # {}
        /\ {d._id : d \in tokens} = {u._id : u \in users}

\* request s is a Refresh that takes a step
RefreshStep(s) == req'[s].op = "refresh" /\ req'[s] # req[s]
\* the users that have a document in the tokens collection
Subjects(ts) == {d._id : d \in ts}

\* C16: Refresh never creates a session record.  No step of a Refresh adds
\* a document to the tokens collection or removes one: the users that have a
\* record are the same before and after, so a user without a record at
\* Refresh's write (never logged in, or logged out meanwhile) has none after.
C16_RefreshCreatesNoRecord ==
    [][\A s \in Slots :
          RefreshStep(s) =>
              /\ Subjects(tokens') = Subjects(tokens)
              /\ Cardinality(tokens') = Cardinality(tokens)]_vars

\* C16 witness: a Refresh whose token was on record at its lookup has
\* answered 200 after a Logout removed the record: its write changed
\* nothing and its user has no record.
C16_Witness ==
    \E s \in Slots :
        /\ Done(s) /\ req[s].op = "refresh" /\ Succeeded(req[s])
        /\ req[s].onRecord /\ ~req[s].wrote
        /\ req[s].token \in revoked.loggedOut
        /\ req[s].userDto \notin Subjects(tokens)

\* request s, of kind op, takes a step
StepOf(s, op) == req'[s].op = op /\ req'[s] # req[s]
\* the documents of the tokens collection that are not of user id
RecordsOfOthers(ts, id) == {d \in ts : d._id # id}
\* the documents of the tokens collection that do not hold token tok
RecordsWithout(ts, tok) == {d \in ts : d.token # tok}

\* C17: operations are confined to their own user.  A step of a Login or of
\* a Refresh for user u leaves the session records of all other users as
\* they were; a step of a Logout presented with token T leaves every record
\* that does not hold T as it was, and removes at most one record.
C17_ConfinedToOwnUser ==
    [][\A s \in Slots :
          /\ StepOf(s, "login") \/ StepOf(s, "refresh") =>
                RecordsOfOthers(tokens', req'[s].id) =
                    RecordsOfOthers(tokens, req'[s].id)
          /\ StepOf(s, "logout") =>
                /\ RecordsWithout(tokens', req'[s].token) =
                       RecordsWithout(tokens, req'[s].token)
                /\ Cardinality(tokens') >= Cardinality(tokens) - 1]_vars

\* C17 witness: a Login has rewritten its user's record while another user
\* has a record too.
C17_Witness ==
    \E s \in Slots :
        /\ Done(s) /\ req[s].op = "login" /\ Succeeded(req[s]) /\ req[s].wrote
        /\ req[s].userDto \in Subjects(tokens)
        /\ RecordsOfOthers(tokens, req[s].userDto) # {}

====
